---- MODULE Spec2Model ----
(***************************************************************************)
(* The split-retry duplex stream (type retrier, package intra).            *)
(*                                                                         *)
(* Two roles use one stream: a reader (Read, CloseRead) and a writer       *)
(* (Write, ReadFrom, CloseWrite).  Every statement that touches shared     *)
(* state, takes or releases the mutex, or calls the transport is one step  *)
(* of its role; the steps of the two roles interleave freely.  The         *)
(* transport (net.TCPConn) is the environment: every call on it returns    *)
(* one of the results the Go net package can produce, chosen               *)
(* nondeterministically.  A method called on a nil *net.TCPConn does not   *)
(* return: it is a nil pointer dereference, a run-time panic that ends the *)
(* process.                                                                *)
(***************************************************************************)
EXTENDS Integers, Sequences, FiniteSets, TLC

\* ------------------------------------------------------------------ bounds
\* Number of distinct bytes the writer's source can supply in one behaviour.
MaxBytes == 3
\* Longest payload handed to one direct Write call.
MaxWriteLen == 2
\* Ghost counters saturate here.
CountCap == 3
\* Longest hello that is split in SplitSpec.
MaxHello == 130

\* ------------------------------------------------------- program constants
MIN_SPLIT == 32
MAX_SPLIT == 64
\* ReadFrom's chunk buffer.
ChunkSize == 2048

\* ---------------------------------------------------------------- values
\* *net.TCPConn values: NilConn is the nil pointer, FirstConn the connection
\* the constructor dialed, NewConn the one the retry dials.
NilConn == 0
FirstConn == 1
NewConn == 2
Conns == {FirstConn, NewConn}

\* The error values the calls return.
Errors == {"nil", "io", "timeout", "dial", "eof"}

\* The run-time panics of the process: none so far, a close of a closed
\* channel, or a method called on a nil *net.TCPConn (net.TCPConn embeds the
\* struct conn, so the call takes the address of a field of a nil pointer).
NoPanic == "none"
ClosedChannel == "close of closed channel"
NilDeref == "nil pointer dereference"

VARIABLES
  \* --- the retrier's fields
  conn,               \* r.conn
  hello,              \* r.hello
  retryCompleteFlag,  \* TRUE = the channel is closed
  readCloseFlag,
  writeCloseFlag,
  mutex,              \* "free", "reader" or "writer"
  \* --- the transport
  recv,               \* recv[c]: the bytes connection c accepted, in order
  shutRd,             \* connections whose read half was shut (CloseRead)
  shutWr,             \* connections whose write half was shut (CloseWrite)
  closedConns,        \* connections on which Close was called
  deadline,           \* connections with a read deadline armed
  \* --- the reader role
  rop,                \* the call the reader is in or last returned from
  rpc, rn, rerr,      \* position, and the named results n, err
  rsplit,             \* retry's split offset (len(first))
  \* --- the writer role
  wop,                \* the call the writer is in or last returned from
  wpc, wb, wn, werr,  \* position, Write's argument b and results n, err
                      \* (wn is also ReadFrom's n, lines 220-224)
  wconn,              \* Write's local conn
  rfBytes, rfErr,     \* ReadFrom's named results bytes, err
  nextByte,           \* next unused byte of the writer's source
  \* --- history (never read by the program)
  panicked,           \* the run-time panic that ended the process, or NoPanic
  retryCount,         \* executions of retry
  dialCount,          \* dials made by retry
  closeCount,         \* closes of retryCompleteFlag
  swapCount,          \* assignments to r.conn
  retryStatus,        \* "none", "started", "dialFailed", "replayFailed", "replayed"
  flagsAtDial         \* <<readCloseFlag, writeCloseFlag>> when retry dialed

streamVars == <<conn, hello, retryCompleteFlag, readCloseFlag, writeCloseFlag, mutex>>
netVars == <<recv, shutRd, shutWr, closedConns, deadline>>
readerVars == <<rop, rpc, rn, rerr, rsplit>>
writerVars == <<wop, wpc, wb, wn, werr, wconn, rfBytes, rfErr, nextByte>>
histVars == <<panicked, retryCount, dialCount, closeCount, swapCount, retryStatus,
              flagsAtDial>>
vars == <<streamVars, netVars, readerVars, writerVars, histVars>>

\* ---------------------------------------------------------------- helpers
Min(a, b) == IF a < b THEN a ELSE b
Bump(c) == Min(c + 1, CountCap)
Prefix(s, n) == SubSeq(s, 1, n)
Suffix(s, n) == SubSeq(s, n + 1, Len(s))

\* closed(c): the non-blocking poll of a flag.
closed(c) == c

readClosed == closed(readCloseFlag)

writeClosed == closed(writeCloseFlag)

\* A poll that never sees the flag closed (not what the code does).
retryCompleted_Never == FALSE

retryCompleted == closed(retryCompleteFlag)

\* A split that clamps to the whole length instead of half of it (not what
\* the code does).
splitOffset_Whole(h, s0) ==
  IF Len(h) = 0 THEN 0
  ELSE LET limit == Len(h) IN IF s0 > limit THEN limit ELSE s0

\* splitHello with the random draw s0 in MIN_SPLIT..MAX_SPLIT made explicit.
splitOffset(h, s0) ==
  IF Len(h) = 0 THEN 0
  ELSE LET limit == Len(h) \div 2 IN IF s0 > limit THEN limit ELSE s0

splitHello(h, s0) == <<Prefix(h, splitOffset(h, s0)), Suffix(h, splitOffset(h, s0))>>

\* ----------------------------------------------------------- the transport
\* The outcome of a call on the nil connection: no result, the call panics.
Panics(e) == e = "panic"

\* (*net.TCPConn).Read on c: <<n, err>>.  On the nil connection the call
\* panics; a closed one answers an error; otherwise data, nothing (an empty
\* buffer), or an error (end of stream included), and a timeout only when a
\* read deadline is armed.  A shut read half changes none of this: bytes
\* queued before or arriving after the shutdown are still delivered.
ReadOutcomes(c) ==
  IF c = NilConn THEN {<<0, "panic">>}
  ELSE IF c \in closedConns THEN {<<0, "io">>}
  ELSE {<<1, "nil">>, <<0, "nil">>, <<0, "io">>}
       \cup (IF c \in deadline THEN {<<0, "timeout">>} ELSE {})

\* (*net.TCPConn).Write of len bytes on c: <<n, err>>, n < len only with an
\* error.  On the nil connection the call panics, whatever len is.
WriteOutcomes(c, len) ==
  IF c = NilConn THEN {<<0, "panic">>}
  ELSE IF c \in closedConns \cup shutWr THEN {<<0, "io">>}
  ELSE {<<len, "nil">>} \cup {<<k, "io">> : k \in 0..(len - 1)}
       \cup (IF len = 0 THEN {<<0, "io">>} ELSE {})

\* The bytes connection c holds after accepting the first n bytes of b.
Accept(c, b, n) ==
  IF c \in Conns THEN [recv EXCEPT ![c] = @ \o Prefix(b, n)] ELSE recv

\* CloseRead / CloseWrite on c: the errors it can return.  On the nil
\* connection the call panics.  On an open connection the shutdown succeeds,
\* or fails (the peer has reset the connection) and shuts nothing.
HalfCloseErr(c) ==
  IF c = NilConn THEN {"panic"} ELSE IF c \in closedConns THEN {"io"} ELSE {"nil", "io"}

\* The shut halves after a half-close of c that returned e.
HalfClosed(shut, c, e) == IF e = "nil" THEN shut \cup {c} ELSE shut

\* ------------------------------------------------------------------- Init
\* The state DialWithSplitRetry returns: the first connection is open, the
\* three flags are open, hello is empty.
Init ==
  /\ conn = FirstConn
  /\ hello = <<>>
  /\ retryCompleteFlag = FALSE
  /\ readCloseFlag = FALSE
  /\ writeCloseFlag = FALSE
  /\ mutex = "free"
  /\ recv = [c \in Conns |-> <<>>]
  /\ shutRd = {}
  /\ shutWr = {}
  /\ closedConns = {}
  /\ deadline = {}
  /\ rop = "none" /\ wop = "none"
  /\ rpc = "idle" /\ rn = 0 /\ rerr = "nil" /\ rsplit = 0
  /\ wpc = "idle" /\ wb = <<>> /\ wn = 0 /\ werr = "nil"
  /\ wconn = NilConn
  /\ rfBytes = 0 /\ rfErr = "nil"
  /\ nextByte = 1
  /\ panicked = NoPanic
  /\ retryCount = 0 /\ dialCount = 0 /\ closeCount = 0 /\ swapCount = 0
  /\ retryStatus = "none"
  /\ flagsAtDial = <<FALSE, FALSE>>

\* A role is at a statement, and the process has not panicked (a panic ends it).
ReaderAt(l) == panicked = NoPanic /\ rpc = l
WriterAt(l) == panicked = NoPanic /\ wpc = l

\* A method is called on the nil connection: the goroutine panics where it
\* is, nothing else changes, and the process ends.
NilPanic ==
  /\ panicked' = NilDeref
  /\ UNCHANGED <<streamVars, netVars, readerVars, writerVars, retryCount, dialCount,
                 closeCount, swapCount, retryStatus, flagsAtDial>>

\* The same inside CloseRead or CloseWrite: the deferred r.mutex.Unlock()
\* (lines 153, 242) runs while the goroutine panics.
NilPanicUnlocking ==
  /\ panicked' = NilDeref
  /\ mutex' = "free"
  /\ UNCHANGED <<conn, hello, retryCompleteFlag, readCloseFlag, writeCloseFlag, netVars,
                 readerVars, writerVars, retryCount, dialCount, closeCount, swapCount,
                 retryStatus, flagsAtDial>>

\* ------------------------------------------------------------ reader role
\* The reader calls Read.
ReadCall ==
  /\ ReaderAt("idle")
  /\ rop' = "Read" /\ rpc' = "Read_105" /\ rn' = 0 /\ rerr' = "nil"
  /\ UNCHANGED <<rsplit, streamVars, netVars, writerVars, histVars>>

\* No read counts as ambiguous (not what the code does).
ambiguous_Never(n, err) == FALSE

\* line 106: the ambiguous read, zero bytes and no error.
ambiguous(n, err) == n = 0 /\ err = "nil"

\* lines 105-109: n, err = r.conn.Read(buf); an ambiguous read returns at once.
Read_105 ==
  /\ ReaderAt("Read_105")
  /\ \E o \in ReadOutcomes(conn) :
       IF Panics(o[2]) THEN NilPanic
       ELSE /\ rn' = o[1] /\ rerr' = o[2]
            /\ rpc' = IF ambiguous(o[1], o[2]) THEN "idle" ELSE "Read_110"
            /\ UNCHANGED <<rop, rsplit, streamVars, netVars, writerVars, histVars>>

\* line 110 without the check (not what the code does).
Read_110_Unchecked ==
  /\ ReaderAt("Read_110")
  /\ rpc' = "Read_111"
  /\ UNCHANGED <<rop, rn, rerr, rsplit, streamVars, netVars, writerVars, histVars>>

\* line 110: if !r.retryCompleted(); otherwise line 120, return.
Read_110 ==
  /\ ReaderAt("Read_110")
  /\ rpc' = IF ~retryCompleted THEN "Read_111" ELSE "idle"
  /\ UNCHANGED <<rop, rn, rerr, rsplit, streamVars, netVars, writerVars, histVars>>

\* No read counts as failed (not what the code does).
readFailed_Never(err) == FALSE

\* line 112: if err != nil, the read failed and retry runs.
readFailed(err) == err # "nil"

\* lines 112-115: enter retry (its named results start as 0, nil) or go on to
\* line 116.
Read_112 ==
  IF readFailed(rerr)
    THEN /\ rpc' = "retry_124"
         /\ rn' = 0 /\ rerr' = "nil"
         /\ retryCount' = Bump(retryCount)
         /\ retryStatus' = "started"
    ELSE /\ rpc' = "Read_116"
         /\ UNCHANGED <<rn, rerr, retryCount, retryStatus>>

\* line 111 without the lock (not what the code does).
Read_111_NoLock ==
  /\ ReaderAt("Read_111")
  /\ Read_112
  /\ UNCHANGED <<rop, rsplit, streamVars, netVars, writerVars, panicked, dialCount,
                 closeCount, swapCount, flagsAtDial>>

\* lines 111-115: r.mutex.Lock(), then the branch of line 112.
Read_111 ==
  /\ ReaderAt("Read_111")
  /\ mutex = "free"
  /\ mutex' = "reader"
  /\ Read_112
  /\ UNCHANGED <<rop, rsplit, conn, hello, retryCompleteFlag, readCloseFlag,
                 writeCloseFlag, netVars, writerVars, panicked, dialCount, closeCount,
                 swapCount, flagsAtDial>>

\* line 124: r.conn.Close()
retry_124 ==
  /\ ReaderAt("retry_124")
  /\ IF conn = NilConn THEN NilPanic
     ELSE /\ closedConns' = closedConns \cup {conn}
          /\ rpc' = "retry_125"
          /\ UNCHANGED <<rop, rn, rerr, rsplit, streamVars, recv, shutRd, shutWr,
                         deadline, writerVars, histVars>>

\* lines 125-127, the dial fails: r.conn becomes nil and retry returns the
\* error.
DialFails ==
  /\ conn' = NilConn
  /\ rn' = 0 /\ rerr' = "dial"
  /\ retryStatus' = "dialFailed"
  /\ rpc' = "Read_116"

\* lines 125-127 with the pending CloseWrite applied to the new connection
\* right after the dial, before the replay (not what the code does).
retry_125_CloseWriteFirst ==
  /\ ReaderAt("retry_125")
  /\ \/ /\ conn' = NewConn
        /\ rpc' = "retry_128"
        /\ shutWr' = IF writeClosed THEN shutWr \cup {NewConn} ELSE shutWr
        /\ UNCHANGED <<rn, rerr, retryStatus>>
     \/ DialFails /\ UNCHANGED shutWr
  /\ dialCount' = Bump(dialCount)
  /\ swapCount' = Bump(swapCount)
  /\ flagsAtDial' = <<readCloseFlag, writeCloseFlag>>
  /\ UNCHANGED <<rop, rsplit, hello, retryCompleteFlag, readCloseFlag, writeCloseFlag,
                 mutex, recv, shutRd, closedConns, deadline, writerVars, panicked,
                 retryCount, closeCount>>

\* lines 125-127: r.conn, err = net.DialTCP(...)
retry_125 ==
  /\ ReaderAt("retry_125")
  /\ \/ /\ conn' = NewConn
        /\ rpc' = "retry_128"
        /\ UNCHANGED <<rn, rerr, retryStatus>>
     \/ DialFails
  /\ dialCount' = Bump(dialCount)
  /\ swapCount' = Bump(swapCount)
  /\ flagsAtDial' = <<readCloseFlag, writeCloseFlag>>
  /\ UNCHANGED <<rop, rsplit, hello, retryCompleteFlag, readCloseFlag, writeCloseFlag,
                 mutex, netVars, writerVars, panicked, retryCount, closeCount>>

\* lines 128-131: split hello and write the first part.
retry_128 ==
  /\ ReaderAt("retry_128")
  /\ \E s0 \in MIN_SPLIT..MAX_SPLIT :
       LET first == splitHello(hello, s0)[1] IN
         \E o \in WriteOutcomes(conn, Len(first)) :
           IF Panics(o[2]) THEN NilPanic
           ELSE /\ recv' = Accept(conn, first, o[1])
                /\ IF o[2] # "nil"
                     THEN /\ rerr' = o[2] /\ rpc' = "Read_116"
                          /\ retryStatus' = "replayFailed"
                          /\ rsplit' = 0
                     ELSE /\ rpc' = "retry_132"
                          /\ rsplit' = Len(first)
                          /\ UNCHANGED <<rerr, retryStatus>>
                /\ UNCHANGED <<rop, rn, streamVars, shutRd, shutWr, closedConns,
                               deadline, writerVars, panicked, retryCount, dialCount,
                               closeCount, swapCount, flagsAtDial>>

\* lines 132-134: write the second part.
retry_132 ==
  /\ ReaderAt("retry_132")
  /\ LET second == Suffix(hello, rsplit) IN
       \E o \in WriteOutcomes(conn, Len(second)) :
         IF Panics(o[2]) THEN NilPanic
         ELSE /\ recv' = Accept(conn, second, o[1])
              /\ IF o[2] # "nil"
                   THEN /\ rerr' = o[2] /\ rpc' = "Read_116"
                        /\ retryStatus' = "replayFailed"
                   ELSE /\ rpc' = "retry_139"
                        /\ retryStatus' = "replayed"
                        /\ UNCHANGED rerr
              /\ rsplit' = 0
              /\ UNCHANGED <<rop, rn, streamVars, shutRd, shutWr, closedConns, deadline,
                             writerVars, panicked, retryCount, dialCount, closeCount,
                             swapCount, flagsAtDial>>

\* lines 139-141: if r.readClosed() { r.conn.CloseRead() }
retry_139 ==
  /\ ReaderAt("retry_139")
  /\ \E e \in (IF readClosed THEN HalfCloseErr(conn) ELSE {"nil"}) :
       IF Panics(e) THEN NilPanic
       ELSE /\ shutRd' = IF readClosed THEN HalfClosed(shutRd, conn, e) ELSE shutRd
            /\ rpc' = "retry_142"
            /\ UNCHANGED <<rop, rn, rerr, rsplit, streamVars, recv, shutWr, closedConns,
                           deadline, writerVars, histVars>>

\* lines 142-144: if r.writeClosed() { r.conn.CloseWrite() }
retry_142 ==
  /\ ReaderAt("retry_142")
  /\ \E e \in (IF writeClosed THEN HalfCloseErr(conn) ELSE {"nil"}) :
       IF Panics(e) THEN NilPanic
       ELSE /\ shutWr' = IF writeClosed THEN HalfClosed(shutWr, conn, e) ELSE shutWr
            /\ rpc' = "retry_145"
            /\ UNCHANGED <<rop, rn, rerr, rsplit, streamVars, recv, shutRd, closedConns,
                           deadline, writerVars, histVars>>

\* line 145: return r.conn.Read(buf)
retry_145 ==
  /\ ReaderAt("retry_145")
  /\ \E o \in ReadOutcomes(conn) :
       IF Panics(o[2]) THEN NilPanic
       ELSE /\ rn' = o[1] /\ rerr' = o[2]
            /\ rpc' = "Read_116"
            /\ UNCHANGED <<rop, rsplit, streamVars, netVars, writerVars, histVars>>

\* line 116: close(r.retryCompleteFlag); closing a closed channel panics.
Read_116 ==
  /\ ReaderAt("Read_116")
  /\ IF retryCompleteFlag
       THEN panicked' = ClosedChannel /\ UNCHANGED retryCompleteFlag
       ELSE retryCompleteFlag' = TRUE /\ UNCHANGED panicked
  /\ closeCount' = Bump(closeCount)
  /\ rpc' = "Read_117"
  /\ UNCHANGED <<rop, rn, rerr, rsplit, conn, hello, readCloseFlag, writeCloseFlag, mutex,
                 netVars, writerVars, retryCount, dialCount, swapCount, retryStatus,
                 flagsAtDial>>

\* line 117: r.hello = nil
Read_117 ==
  /\ ReaderAt("Read_117")
  /\ hello' = <<>>
  /\ rpc' = "Read_118"
  /\ UNCHANGED <<rop, rn, rerr, rsplit, conn, retryCompleteFlag, readCloseFlag,
                 writeCloseFlag, mutex, netVars, writerVars, histVars>>

\* lines 118-120: r.mutex.Unlock(); return
Read_118 ==
  /\ ReaderAt("Read_118")
  /\ mutex' = "free"
  /\ rpc' = "idle"
  /\ UNCHANGED <<rop, rn, rerr, rsplit, conn, hello, retryCompleteFlag, readCloseFlag,
                 writeCloseFlag, netVars, writerVars, histVars>>

\* The reader calls CloseRead.
CloseReadCall ==
  /\ ReaderAt("idle")
  /\ rop' = "CloseRead" /\ rpc' = "CloseRead_149" /\ rn' = 0 /\ rerr' = "nil"
  /\ UNCHANGED <<rsplit, streamVars, netVars, writerVars, histVars>>

\* line 149: if !r.readClosed()
CloseRead_149 ==
  /\ ReaderAt("CloseRead_149")
  /\ rpc' = IF ~readClosed THEN "CloseRead_150" ELSE "CloseRead_152"
  /\ UNCHANGED <<rop, rn, rerr, rsplit, streamVars, netVars, writerVars, histVars>>

\* line 150: close(r.readCloseFlag)
CloseRead_150 ==
  /\ ReaderAt("CloseRead_150")
  /\ IF readCloseFlag
       THEN panicked' = ClosedChannel /\ UNCHANGED readCloseFlag
       ELSE readCloseFlag' = TRUE /\ UNCHANGED panicked
  /\ rpc' = "CloseRead_152"
  /\ UNCHANGED <<rop, rn, rerr, rsplit, conn, hello, retryCompleteFlag, writeCloseFlag,
                 mutex, netVars, writerVars, retryCount, dialCount, closeCount, swapCount,
                 retryStatus, flagsAtDial>>

\* line 152: r.mutex.Lock()
CloseRead_152 ==
  /\ ReaderAt("CloseRead_152")
  /\ mutex = "free"
  /\ mutex' = "reader"
  /\ rpc' = "CloseRead_154"
  /\ UNCHANGED <<rop, rn, rerr, rsplit, conn, hello, retryCompleteFlag, readCloseFlag,
                 writeCloseFlag, netVars, writerVars, histVars>>

\* lines 153-154: return r.conn.CloseRead(), then the deferred Unlock.
CloseRead_154 ==
  /\ ReaderAt("CloseRead_154")
  /\ \E e \in HalfCloseErr(conn) :
       IF Panics(e) THEN NilPanicUnlocking
       ELSE /\ shutRd' = HalfClosed(shutRd, conn, e) /\ rerr' = e
            /\ mutex' = "free"
            /\ rpc' = "idle"
            /\ UNCHANGED <<rop, rn, rsplit, conn, hello, retryCompleteFlag, readCloseFlag,
                           writeCloseFlag, recv, shutWr, closedConns, deadline, writerVars,
                           histVars>>

ReaderStep ==
  \/ ReadCall \/ Read_105 \/ Read_110 \/ Read_111
  \/ retry_124 \/ retry_125 \/ retry_128 \/ retry_132 \/ retry_139 \/ retry_142
  \/ retry_145 \/ Read_116 \/ Read_117 \/ Read_118
  \/ CloseReadCall \/ CloseRead_149 \/ CloseRead_150 \/ CloseRead_152 \/ CloseRead_154

\* ------------------------------------------------------------ writer role
\* The bytes the writer offers next.  A byte's value is its place in the
\* stream of bytes the writer's calls have reported as written: nextByte - 1
\* bytes were reported so far, and after a call that reports n bytes the
\* writer goes on with the byte after them.
SourceBytes(k) == [i \in 1..k |-> nextByte + i - 1]

\* The bytes the writer's calls have reported as written, in call order.
Reported == [i \in 1..(nextByte - 1) |-> i]
Remaining == MaxBytes - nextByte + 1

\* The writer calls Write(b).
WriteCall ==
  /\ WriterAt("idle")
  /\ \E len \in 0..Min(MaxWriteLen, Remaining) : wb' = SourceBytes(len)
  /\ wop' = "Write" /\ wpc' = "Write_181"
  /\ wn' = 0 /\ werr' = "nil" /\ wconn' = NilConn
  /\ rfBytes' = 0 /\ rfErr' = "nil"
  /\ UNCHANGED <<nextByte, streamVars, netVars, readerVars, histVars>>

\* line 181: if !r.retryCompleted()
Write_181 ==
  /\ WriterAt("Write_181")
  /\ wpc' = IF ~retryCompleted THEN "Write_182" ELSE "Write_208"
  /\ UNCHANGED <<wop, wb, wn, werr, wconn, rfBytes, rfErr, nextByte, streamVars, netVars,
                 readerVars, histVars>>

\* line 182: r.mutex.Lock()
Write_182 ==
  /\ WriterAt("Write_182")
  /\ mutex = "free"
  /\ mutex' = "writer"
  /\ wpc' = "Write_183"
  /\ UNCHANGED <<wop, wb, wn, werr, wconn, rfBytes, rfErr, nextByte, conn, hello,
                 retryCompleteFlag, readCloseFlag, writeCloseFlag, netVars, readerVars,
                 histVars>>

\* line 183 without the second check (not what the code does).
Write_183_NoRecheck ==
  /\ WriterAt("Write_183")
  /\ wpc' = "Write_184"
  /\ UNCHANGED <<wop, wb, wn, werr, wconn, rfBytes, rfErr, nextByte, streamVars, netVars,
                 readerVars, histVars>>

\* line 183: the second check, under the mutex.
Write_183 ==
  /\ WriterAt("Write_183")
  /\ wpc' = IF ~retryCompleted THEN "Write_184" ELSE "Write_191"
  /\ UNCHANGED <<wop, wb, wn, werr, wconn, rfBytes, rfErr, nextByte, streamVars, netVars,
                 readerVars, histVars>>

\* All of b is kept for replay, written or not (not what the code does).
helloAppend_All(h, b, n) == h \o b

\* line 186: r.hello = append(r.hello, b[:n]...)
helloAppend(h, b, n) == h \o Prefix(b, n)

\* lines 184-186: conn = r.conn; n, err = conn.Write(b); append b[:n] to hello.
Write_184 ==
  /\ WriterAt("Write_184")
  /\ \E o \in WriteOutcomes(conn, Len(wb)) :
       IF Panics(o[2]) THEN NilPanic
       ELSE /\ wconn' = conn
            /\ recv' = Accept(conn, wb, o[1])
            /\ wn' = o[1] /\ werr' = o[2]
            /\ hello' = helloAppend(hello, wb, o[1])
            /\ wpc' = "Write_189"
            /\ UNCHANGED <<wop, wb, rfBytes, rfErr, nextByte, conn, retryCompleteFlag,
                           readCloseFlag, writeCloseFlag, mutex, shutRd, shutWr,
                           closedConns, deadline, readerVars, histVars>>

\* line 189: conn.SetReadDeadline(time.Now().Add(r.timeout))
Write_189 ==
  /\ WriterAt("Write_189")
  /\ deadline' = IF wconn \in Conns \ closedConns THEN deadline \cup {wconn} ELSE deadline
  /\ wpc' = "Write_191"
  /\ UNCHANGED <<wop, wb, wn, werr, wconn, rfBytes, rfErr, nextByte, streamVars, recv,
                 shutRd, shutWr, closedConns, readerVars, histVars>>

\* lines 191-194: r.mutex.Unlock(); if err != nil
Write_191 ==
  /\ WriterAt("Write_191")
  /\ mutex' = "free"
  /\ wpc' = IF werr # "nil" THEN "Write_198" ELSE "Write_208"
  /\ UNCHANGED <<wop, wb, wn, werr, wconn, rfBytes, rfErr, nextByte, conn, hello,
                 retryCompleteFlag, readCloseFlag, writeCloseFlag, netVars, readerVars,
                 histVars>>

\* line 198 without the wait (not what the code does).
Write_198_NoWait ==
  /\ WriterAt("Write_198")
  /\ wpc' = "Write_199"
  /\ UNCHANGED <<wop, wb, wn, werr, wconn, rfBytes, rfErr, nextByte, streamVars, netVars,
                 readerVars, histVars>>

\* line 198: <-r.retryCompleteFlag blocks until the flag is closed.
Write_198 ==
  /\ WriterAt("Write_198")
  /\ retryCompleteFlag
  /\ wpc' = "Write_199"
  /\ UNCHANGED <<wop, wb, wn, werr, wconn, rfBytes, rfErr, nextByte, streamVars, netVars,
                 readerVars, histVars>>

\* line 199: r.mutex.Lock()
Write_199 ==
  /\ WriterAt("Write_199")
  /\ mutex = "free"
  /\ mutex' = "writer"
  /\ wpc' = "Write_200"
  /\ UNCHANGED <<wop, wb, wn, werr, wconn, rfBytes, rfErr, nextByte, conn, hello,
                 retryCompleteFlag, readCloseFlag, writeCloseFlag, netVars, readerVars,
                 histVars>>

\* lines 200-201: conn = r.conn; r.mutex.Unlock()
Write_200 ==
  /\ WriterAt("Write_200")
  /\ wconn' = conn
  /\ mutex' = "free"
  /\ wpc' = "Write_203"
  /\ UNCHANGED <<wop, wb, wn, werr, rfBytes, rfErr, nextByte, conn, hello,
                 retryCompleteFlag, readCloseFlag, writeCloseFlag, netVars, readerVars,
                 histVars>>

\* lines 202-204: m, err = conn.Write(b[n:]); n += m
Write_203 ==
  /\ WriterAt("Write_203")
  /\ \E o \in WriteOutcomes(wconn, Len(wb) - wn) :
       IF Panics(o[2]) THEN NilPanic
       ELSE /\ recv' = Accept(wconn, Suffix(wb, wn), o[1])
            /\ wn' = wn + o[1] /\ werr' = o[2]
            /\ wpc' = "Write_208"
            /\ UNCHANGED <<wop, wb, wconn, rfBytes, rfErr, nextByte, streamVars, shutRd,
                           shutWr, closedConns, deadline, readerVars, histVars>>

\* lines 208-212: if conn == nil { n, err = r.conn.Write(b) }; return, to the
\* caller or to ReadFrom (line 224).
Write_208 ==
  /\ WriterAt("Write_208")
  /\ \E o \in (IF wconn = NilConn THEN WriteOutcomes(conn, Len(wb)) ELSE {<<wn, werr>>}) :
       IF Panics(o[2]) THEN NilPanic
       ELSE /\ recv' = IF wconn = NilConn THEN Accept(conn, wb, o[1]) ELSE recv
            /\ wn' = o[1] /\ werr' = o[2]
            /\ nextByte' = nextByte + o[1]
            /\ wconn' = NilConn /\ wb' = <<>>
            /\ wpc' = IF wop = "ReadFrom" THEN "ReadFrom_225" ELSE "idle"
            /\ UNCHANGED <<wop, rfBytes, rfErr, streamVars, shutRd, shutWr,
                           closedConns, deadline, readerVars, histVars>>

\* The writer calls ReadFrom(reader).
ReadFromCall ==
  /\ WriterAt("idle")
  /\ wop' = "ReadFrom" /\ wpc' = "ReadFrom_216"
  /\ rfBytes' = 0 /\ rfErr' = "nil"
  /\ wb' = <<>> /\ wn' = 0 /\ werr' = "nil" /\ wconn' = NilConn
  /\ UNCHANGED <<nextByte, streamVars, netVars, readerVars, histVars>>

\* line 216: for !r.retryCompleted()
ReadFrom_216 ==
  /\ WriterAt("ReadFrom_216")
  /\ wpc' = IF ~retryCompleted THEN "ReadFrom_221" ELSE "ReadFrom_232"
  /\ UNCHANGED <<wop, wb, wn, werr, wconn, rfBytes, rfErr, nextByte, streamVars, netVars,
                 readerVars, histVars>>

\* lines 219-224: n, err = reader.Read(buf) into a ChunkSize buffer; on an
\* error return, otherwise call r.Write(buf[:n]).  An io.Reader may return
\* bytes together with an error; ReadFrom then returns with its local n
\* holding their count.
ReadFrom_221 ==
  /\ WriterAt("ReadFrom_221")
  /\ \E k \in 0..Min(ChunkSize, Remaining), e \in {"nil", "eof"} :
       /\ IF e # "nil"
            THEN /\ rfErr' = e /\ wpc' = "idle"
                 /\ wn' = k
                 /\ UNCHANGED <<wb, werr, wconn>>
            ELSE /\ wb' = SourceBytes(k) /\ wn' = 0 /\ werr' = "nil" /\ wconn' = NilConn
                 /\ wpc' = "Write_181"
                 /\ UNCHANGED rfErr
  /\ UNCHANGED <<wop, rfBytes, nextByte, streamVars, netVars, readerVars, histVars>>

\* lines 225-228: bytes += int64(n); if err != nil return
ReadFrom_225 ==
  /\ WriterAt("ReadFrom_225")
  /\ rfBytes' = rfBytes + wn
  /\ IF werr # "nil"
       THEN rfErr' = werr /\ wpc' = "idle"
       ELSE wpc' = "ReadFrom_216" /\ UNCHANGED rfErr
  /\ wn' = 0 /\ werr' = "nil"
  /\ UNCHANGED <<wop, wb, wconn, nextByte, streamVars, netVars, readerVars,
                 histVars>>

\* lines 231-234: b, err = r.conn.ReadFrom(reader); bytes += b.  On the nil
\* connection the call panics.  Otherwise the bulk transfer
\* is a loop, one step per turn, with its count b kept in wn: it waits for the
\* source, which ends (b, nil is returned), fails, or gives a chunk of k
\* bytes that is written to the connection; a write error ends the loop with
\* the bytes accepted so far.
ReadFrom_232 ==
  /\ WriterAt("ReadFrom_232")
  /\ IF conn = NilConn THEN NilPanic
     ELSE /\ \/ \E e \in {"nil", "io"} :
                  /\ rfErr' = e /\ wpc' = "idle"
                  /\ rfBytes' = rfBytes + wn /\ nextByte' = nextByte + wn /\ wn' = 0
                  /\ UNCHANGED recv
             \/ \E k \in 1..(Remaining - wn) :
                  \E o \in WriteOutcomes(conn, k) :
                    /\ recv' = Accept(conn, [i \in 1..k |-> nextByte + wn + i - 1], o[1])
                    /\ IF o[2] = "nil"
                         THEN /\ wn' = wn + o[1]
                              /\ UNCHANGED <<wpc, rfErr, rfBytes, nextByte>>
                         ELSE /\ rfErr' = o[2] /\ wpc' = "idle"
                              /\ rfBytes' = rfBytes + wn + o[1]
                              /\ nextByte' = nextByte + wn + o[1]
                              /\ wn' = 0
          /\ UNCHANGED <<wop, wb, werr, wconn, streamVars, shutRd, shutWr, closedConns,
                         deadline, readerVars, histVars>>

\* The writer calls CloseWrite.
CloseWriteCall ==
  /\ WriterAt("idle")
  /\ wop' = "CloseWrite" /\ wpc' = "CloseWrite_238"
  /\ wb' = <<>> /\ wn' = 0 /\ werr' = "nil" /\ wconn' = NilConn
  /\ rfBytes' = 0 /\ rfErr' = "nil"
  /\ UNCHANGED <<nextByte, streamVars, netVars, readerVars, histVars>>

\* line 238: if !r.writeClosed()
CloseWrite_238 ==
  /\ WriterAt("CloseWrite_238")
  /\ wpc' = IF ~writeClosed THEN "CloseWrite_239" ELSE "CloseWrite_241"
  /\ UNCHANGED <<wop, wb, wn, werr, wconn, rfBytes, rfErr, nextByte, streamVars, netVars,
                 readerVars, histVars>>

\* line 239: close(r.writeCloseFlag)
CloseWrite_239 ==
  /\ WriterAt("CloseWrite_239")
  /\ IF writeCloseFlag
       THEN panicked' = ClosedChannel /\ UNCHANGED writeCloseFlag
       ELSE writeCloseFlag' = TRUE /\ UNCHANGED panicked
  /\ wpc' = "CloseWrite_241"
  /\ UNCHANGED <<wop, wb, wn, werr, wconn, rfBytes, rfErr, nextByte, conn, hello,
                 retryCompleteFlag, readCloseFlag, mutex, netVars, readerVars, retryCount,
                 dialCount, closeCount, swapCount, retryStatus, flagsAtDial>>

\* line 241: r.mutex.Lock()
CloseWrite_241 ==
  /\ WriterAt("CloseWrite_241")
  /\ mutex = "free"
  /\ mutex' = "writer"
  /\ wpc' = "CloseWrite_243"
  /\ UNCHANGED <<wop, wb, wn, werr, wconn, rfBytes, rfErr, nextByte, conn, hello,
                 retryCompleteFlag, readCloseFlag, writeCloseFlag, netVars, readerVars,
                 histVars>>

\* lines 242-243: return r.conn.CloseWrite(), then the deferred Unlock.
CloseWrite_243 ==
  /\ WriterAt("CloseWrite_243")
  /\ \E e \in HalfCloseErr(conn) :
       IF Panics(e) THEN NilPanicUnlocking
       ELSE /\ shutWr' = HalfClosed(shutWr, conn, e) /\ werr' = e
            /\ mutex' = "free"
            /\ wpc' = "idle"
            /\ UNCHANGED <<wop, wb, wn, wconn, rfBytes, rfErr, nextByte, conn, hello,
                           retryCompleteFlag, readCloseFlag, writeCloseFlag, recv, shutRd,
                           closedConns, deadline, readerVars, histVars>>

WriterStep ==
  \/ WriteCall \/ Write_181 \/ Write_182 \/ Write_183 \/ Write_184 \/ Write_189
  \/ Write_191 \/ Write_198 \/ Write_199 \/ Write_200 \/ Write_203 \/ Write_208
  \/ ReadFromCall \/ ReadFrom_216 \/ ReadFrom_221 \/ ReadFrom_225 \/ ReadFrom_232
  \/ CloseWriteCall \/ CloseWrite_238 \/ CloseWrite_239 \/ CloseWrite_241
  \/ CloseWrite_243

\* ------------------------------------------------------------ the system
Next == ReaderStep \/ WriterStep

Spec == Init /\ [][Next]_vars

\* The steps that wait for nobody but the scheduler: everything except the
\* start of a call and the reads that wait for the peer or the source.
ReaderProgress ==
  \/ Read_110 \/ retry_124 \/ retry_125 \/ retry_128 \/ retry_132 \/ retry_139
  \/ retry_142 \/ Read_116 \/ Read_117 \/ Read_118
  \/ CloseRead_149 \/ CloseRead_150 \/ CloseRead_154

WriterProgress ==
  \/ Write_181 \/ Write_183 \/ Write_184 \/ Write_189 \/ Write_191 \/ Write_198
  \/ Write_200 \/ Write_203 \/ Write_208
  \/ ReadFrom_216 \/ ReadFrom_225
  \/ CloseWrite_238 \/ CloseWrite_239 \/ CloseWrite_243

\* Taking the mutex: sync.Mutex hands the lock to a waiter that has waited
\* long enough (starvation mode), so a waiter is not passed over for ever.
ReaderLock == Read_111 \/ CloseRead_152
WriterLock == Write_182 \/ Write_199 \/ CloseWrite_241

\* The scheduler runs every goroutine that can run.
FairSpec ==
  /\ Spec
  /\ WF_vars(ReaderProgress) /\ WF_vars(WriterProgress)
  /\ SF_vars(ReaderLock) /\ SF_vars(WriterLock)

\* The read of line 105 into a non-empty buffer: it never returns 0, nil, so
\* it returns data or an error, or panics on the nil connection.
DecisiveRead == Read_105 /\ rpc' # "idle"

\* The stream whose reader passes non-empty buffers to Read, so that every
\* read of line 105 returns data or an error.
LiveNext ==
  \/ ReadCall \/ DecisiveRead \/ Read_110 \/ Read_111
  \/ retry_124 \/ retry_125 \/ retry_128 \/ retry_132 \/ retry_139 \/ retry_142
  \/ retry_145 \/ Read_116 \/ Read_117 \/ Read_118
  \/ CloseReadCall \/ CloseRead_149 \/ CloseRead_150 \/ CloseRead_152 \/ CloseRead_154
  \/ WriterStep

\* The fairness of FairSpec, with a reader that keeps issuing Read and a
\* transport whose reads return: the pending read (line 105) and the retry's
\* read (line 145).
LiveSpec ==
  /\ Init /\ [][LiveNext]_vars
  /\ WF_vars(DecisiveRead \/ retry_145 \/ ReaderProgress)
  /\ WF_vars(WriterProgress)
  /\ SF_vars(ReaderLock) /\ SF_vars(WriterLock) /\ SF_vars(ReadCall)

TypeOK ==
  /\ conn \in {NilConn} \cup Conns
  /\ mutex \in {"free", "reader", "writer"}
  /\ rerr \in Errors /\ werr \in Errors /\ rfErr \in Errors
  /\ nextByte \in 1..(MaxBytes + 1)
  /\ Len(hello) <= MaxBytes
  /\ wn <= MaxBytes
  /\ panicked \in {NoPanic, ClosedChannel, NilDeref}

\* ------------------------------------------ half-closes from either goroutine
\* net.Conn methods may be called from any goroutine.  In AnyCallerSpec the
\* goroutine that otherwise carries the writer's calls may also call CloseRead,
\* and the one that carries the reader's calls may also call CloseWrite, so two
\* calls of the same half-close can overlap.  The statements are those of
\* lines 148-155 and 237-244, run on the other goroutine's locals.
OtherCloseReadCall ==
  /\ WriterAt("idle")
  /\ wop' = "CloseRead" /\ wpc' = "CloseRead_149"
  /\ wb' = <<>> /\ wn' = 0 /\ werr' = "nil" /\ wconn' = NilConn
  /\ rfBytes' = 0 /\ rfErr' = "nil"
  /\ UNCHANGED <<nextByte, streamVars, netVars, readerVars, histVars>>

\* line 149: if !r.readClosed()
OtherCloseRead_149 ==
  /\ WriterAt("CloseRead_149")
  /\ wpc' = IF ~readClosed THEN "CloseRead_150" ELSE "CloseRead_152"
  /\ UNCHANGED <<wop, wb, wn, werr, wconn, rfBytes, rfErr, nextByte, streamVars, netVars,
                 readerVars, histVars>>

\* line 150: close(r.readCloseFlag)
OtherCloseRead_150 ==
  /\ WriterAt("CloseRead_150")
  /\ IF readCloseFlag
       THEN panicked' = ClosedChannel /\ UNCHANGED readCloseFlag
       ELSE readCloseFlag' = TRUE /\ UNCHANGED panicked
  /\ wpc' = "CloseRead_152"
  /\ UNCHANGED <<wop, wb, wn, werr, wconn, rfBytes, rfErr, nextByte, conn, hello,
                 retryCompleteFlag, writeCloseFlag, mutex, netVars, readerVars, retryCount,
                 dialCount, closeCount, swapCount, retryStatus, flagsAtDial>>

\* line 152: r.mutex.Lock()
OtherCloseRead_152 ==
  /\ WriterAt("CloseRead_152")
  /\ mutex = "free"
  /\ mutex' = "writer"
  /\ wpc' = "CloseRead_154"
  /\ UNCHANGED <<wop, wb, wn, werr, wconn, rfBytes, rfErr, nextByte, conn, hello,
                 retryCompleteFlag, readCloseFlag, writeCloseFlag, netVars, readerVars,
                 histVars>>

\* lines 153-154: return r.conn.CloseRead(), then the deferred Unlock.
OtherCloseRead_154 ==
  /\ WriterAt("CloseRead_154")
  /\ \E e \in HalfCloseErr(conn) :
       IF Panics(e) THEN NilPanicUnlocking
       ELSE /\ shutRd' = HalfClosed(shutRd, conn, e) /\ werr' = e
            /\ mutex' = "free"
            /\ wpc' = "idle"
            /\ UNCHANGED <<wop, wb, wn, wconn, rfBytes, rfErr, nextByte, conn, hello,
                           retryCompleteFlag, readCloseFlag, writeCloseFlag, recv, shutWr,
                           closedConns, deadline, readerVars, histVars>>

OtherCloseWriteCall ==
  /\ ReaderAt("idle")
  /\ rop' = "CloseWrite" /\ rpc' = "CloseWrite_238" /\ rn' = 0 /\ rerr' = "nil"
  /\ UNCHANGED <<rsplit, streamVars, netVars, writerVars, histVars>>

\* line 238: if !r.writeClosed()
OtherCloseWrite_238 ==
  /\ ReaderAt("CloseWrite_238")
  /\ rpc' = IF ~writeClosed THEN "CloseWrite_239" ELSE "CloseWrite_241"
  /\ UNCHANGED <<rop, rn, rerr, rsplit, streamVars, netVars, writerVars, histVars>>

\* line 239: close(r.writeCloseFlag)
OtherCloseWrite_239 ==
  /\ ReaderAt("CloseWrite_239")
  /\ IF writeCloseFlag
       THEN panicked' = ClosedChannel /\ UNCHANGED writeCloseFlag
       ELSE writeCloseFlag' = TRUE /\ UNCHANGED panicked
  /\ rpc' = "CloseWrite_241"
  /\ UNCHANGED <<rop, rn, rerr, rsplit, conn, hello, retryCompleteFlag, readCloseFlag,
                 mutex, netVars, writerVars, retryCount, dialCount, closeCount, swapCount,
                 retryStatus, flagsAtDial>>

\* line 241: r.mutex.Lock()
OtherCloseWrite_241 ==
  /\ ReaderAt("CloseWrite_241")
  /\ mutex = "free"
  /\ mutex' = "reader"
  /\ rpc' = "CloseWrite_243"
  /\ UNCHANGED <<rop, rn, rerr, rsplit, conn, hello, retryCompleteFlag, readCloseFlag,
                 writeCloseFlag, netVars, writerVars, histVars>>

\* lines 242-243: return r.conn.CloseWrite(), then the deferred Unlock.
OtherCloseWrite_243 ==
  /\ ReaderAt("CloseWrite_243")
  /\ \E e \in HalfCloseErr(conn) :
       IF Panics(e) THEN NilPanicUnlocking
       ELSE /\ shutWr' = HalfClosed(shutWr, conn, e) /\ rerr' = e
            /\ mutex' = "free"
            /\ rpc' = "idle"
            /\ UNCHANGED <<rop, rn, rsplit, conn, hello, retryCompleteFlag, readCloseFlag,
                           writeCloseFlag, recv, shutRd, closedConns, deadline, writerVars,
                           histVars>>

OtherCloseStep ==
  \/ OtherCloseReadCall \/ OtherCloseRead_149 \/ OtherCloseRead_150
  \/ OtherCloseRead_152 \/ OtherCloseRead_154
  \/ OtherCloseWriteCall \/ OtherCloseWrite_238 \/ OtherCloseWrite_239
  \/ OtherCloseWrite_241 \/ OtherCloseWrite_243

AnyCallerNext == ReaderStep \/ WriterStep \/ OtherCloseStep

AnyCallerSpec == Init /\ [][AnyCallerNext]_vars

\* ------------------------------------------------- the split of any hello
\* SplitSpec: the retry has dialed the new connection and is about to split
\* and replay a hello of any length up to MaxHello (lines 128-134); the bytes
\* of hello are 1, 2, ..., so equal contents mean equal positions.
Payload(L) == [i \in 1..L |-> i]

\* The state at line 128 after one Write of L bytes that the first connection
\* accepted in full and that returned (L = 0: no Write was made), a Read whose
\* read failed, and a dial that succeeded: hello is what the first connection
\* accepted, the Write armed the deadline, retry's err is nil.
SplitInit ==
  /\ conn = NewConn
  /\ \E L \in 0..MaxHello :
       /\ hello = Payload(L)
       /\ recv = [c \in Conns |-> IF c = FirstConn THEN Payload(L) ELSE <<>>]
       /\ deadline = IF L > 0 THEN {FirstConn} ELSE {}
       /\ wop = IF L > 0 THEN "Write" ELSE "none"
       /\ wn = L
       /\ nextByte = L + 1
  /\ retryCompleteFlag = FALSE
  /\ readCloseFlag = FALSE
  /\ writeCloseFlag = FALSE
  /\ mutex = "reader"
  /\ shutRd = {}
  /\ shutWr = {}
  /\ closedConns = {FirstConn}
  /\ rop = "Read"
  /\ rpc = "retry_128" /\ rn = 0 /\ rerr = "nil" /\ rsplit = 0
  /\ wpc = "idle" /\ wb = <<>> /\ werr = "nil"
  /\ wconn = NilConn
  /\ rfBytes = 0 /\ rfErr = "nil"
  /\ panicked = NoPanic
  /\ retryCount = 1 /\ dialCount = 1 /\ closeCount = 0 /\ swapCount = 1
  /\ retryStatus = "started"
  /\ flagsAtDial = <<FALSE, FALSE>>

SplitNext == retry_128 \/ retry_132

SplitSpec == SplitInit /\ [][SplitNext]_vars

\* ================================================================= claims
ReadPcs == {"Read_105", "Read_110", "Read_111", "retry_124", "retry_125", "retry_128",
            "retry_132", "retry_139", "retry_142", "retry_145", "Read_116", "Read_117",
            "Read_118"}
CloseReadPcs == {"CloseRead_149", "CloseRead_150", "CloseRead_152", "CloseRead_154"}
CloseWritePcs == {"CloseWrite_238", "CloseWrite_239", "CloseWrite_241", "CloseWrite_243"}

\* The bytes of the Write, or of the bulk transfer, in progress that a
\* connection has accepted so far.
InFlight ==
  IF wpc = "ReadFrom_232" THEN SourceBytes(wn)
  ELSE IF wb = <<>> THEN <<>> ELSE Prefix(wb, wn)

\* C1: over every interleaving of the reader's and the writer's calls, the
\* retry procedure runs at most once.
C1_AtMostOneRetry == retryCount <= 1

\* C1 witness: the retry ran after two or more bytes were written, the flag
\* is closed, and a later Read has just failed again.
C1_Witness ==
  /\ retryCount = 1 /\ retryCompleteFlag
  /\ Len(recv[FirstConn]) >= 2
  /\ rpc = "Read_110" /\ rerr # "nil"

\* C2: once the retry has replayed hello in full, the new connection holds
\* exactly the bytes the writer's calls reported as written, in call order,
\* followed by what the Write in progress has had accepted: nothing is
\* missing, nothing is there twice.
C2_NoLossNoDuplication ==
  retryStatus = "replayed" => recv[NewConn] = Reported \o InFlight

\* C2 witness: a Write failed part-way on the first connection, the retry
\* replayed, and the Write has written its remainder to the new connection.
C2_Witness ==
  /\ retryStatus = "replayed"
  /\ wpc = "Write_208" /\ wconn = NewConn
  /\ Len(recv[FirstConn]) >= 1
  /\ Len(recv[NewConn]) > Len(recv[FirstConn])

\* C3 (as claimed): whenever the retry leaves a new connection installed,
\* every half-close whose flag was closed when the connection was dialed has
\* been applied to it by the time retryCompleteFlag closes, on every exit
\* path of retry.
C3_HalfCloseSurvival ==
  (retryCompleteFlag /\ conn = NewConn) =>
     /\ flagsAtDial[1] => NewConn \in shutRd
     /\ flagsAtDial[2] => NewConn \in shutWr

\* C4 (as claimed): once a CloseRead (CloseWrite) call has returned and the
\* retry has finished with a new connection installed, the read (write) half
\* of that connection is closed.
C4_HalfCloseNeverLost ==
  (retryCompleteFlag /\ conn = NewConn) =>
     /\ (readCloseFlag /\ rpc \notin CloseReadPcs) => NewConn \in shutRd
     /\ (writeCloseFlag /\ wpc \notin CloseWritePcs) => NewConn \in shutWr

\* C5 (as claimed): in every reachable state hello is non-empty only while
\* retryCompleteFlag is open.
C5_BufferLifecycle == hello # <<>> => ~retryCompleteFlag

\* C6: r.conn is assigned at most once, only by retry's dial, only while the
\* reader holds the mutex and retryCompleteFlag is open; once the flag is
\* closed r.conn never changes.
C6_ConnReplacedOnce ==
  /\ [](swapCount <= 1)
  /\ [][conn' # conn =>
          /\ rpc = "retry_125" /\ mutex = "reader" /\ mutex' = "reader"
          /\ ~retryCompleteFlag /\ swapCount = 0]_vars

\* C6 witness: the connection was replaced, the flag is closed, and a Write
\* on the fast path is about to use r.conn without the mutex.
C6_Witness ==
  /\ conn = NewConn /\ retryCompleteFlag /\ swapCount = 1
  /\ wpc = "Write_208" /\ wconn = NilConn /\ mutex = "free"

\* C7: retryCompleteFlag is closed at most once and never while closed (no
\* panic), never reopens, and is closed only by a role holding the mutex.
C7_RetryDecidedOnce ==
  /\ [](closeCount <= 1 /\ panicked # ClosedChannel)
  /\ [][retryCompleteFlag => retryCompleteFlag']_vars
  /\ [][(~retryCompleteFlag /\ retryCompleteFlag') =>
          (mutex = "reader" /\ mutex' = "reader" /\ rpc = "Read_116")]_vars

\* C7 witness: the flag was closed by the first Read, and a later Read that
\* got data or an error is at the check of line 110.
C7_Witness == retryCompleteFlag /\ closeCount = 1 /\ rpc = "Read_110" /\ rn = 1

\* C8 (as claimed): when retry's dial fails, the Read returns the dial error
\* with retryCompleteFlag closed, no dial is ever made again, and a Write that
\* waited at line 198 goes on, its write of b[n:] (line 203) returns an
\* error, and the Write returns it.
C8_Blocked == retryStatus = "dialFailed" /\ wpc = "Write_198"
C8_Returned == wpc \in {"idle", "ReadFrom_225"} /\ wop \in {"Write", "ReadFrom"} /\ werr # "nil"
C8_DialFailureFatal ==
  /\ [](dialCount <= 1)
  /\ []((retryStatus = "dialFailed" /\ rpc # "Read_116") => retryCompleteFlag)
  /\ [][(retryStatus = "dialFailed" /\ rpc = "Read_118" /\ rpc' = "idle") =>
          (rerr' = "dial" /\ rn' = 0)]_vars
  /\ [][(retryStatus = "dialFailed" /\ Write_203) =>
          (wpc' = "Write_208" /\ werr' # "nil")]_vars
  /\ C8_Blocked ~> C8_Returned

\* C9: a read of zero bytes and no error makes Read return (0, nil) at once
\* and changes nothing of the stream: the flag, hello, r.conn, the
\* connections and the retry history stay as they were.
C9_AmbiguousRead ==
  [][(rpc = "Read_105" /\ rpc' # rpc /\ rn' = 0 /\ rerr' = "nil") =>
       (rpc' = "idle" /\ UNCHANGED <<streamVars, netVars, histVars>>)]_vars

\* C9 witness: Read has returned (0, nil) while the flag is open and hello
\* holds bytes.
C9_Witness ==
  /\ rop = "Read" /\ rpc = "idle" /\ rn = 0 /\ rerr = "nil"
  /\ ~retryCompleteFlag /\ hello # <<>> /\ retryCount = 0

\* C10: a Read whose read failed goes, while the flag is open, through the
\* mutex into retry and returns what retry returned; with the flag closed it
\* returns that error at once, dials nothing and changes nothing.
C10_ReadError ==
  /\ [][(rpc = "Read_110" /\ rpc' # rpc /\ rerr # "nil") =>
          IF retryCompleteFlag
            THEN /\ rpc' = "idle" /\ rn' = rn /\ rerr' = rerr
                 /\ UNCHANGED <<streamVars, netVars, histVars>>
            ELSE rpc' = "Read_111"]_vars
  /\ [][(rpc = "Read_111" /\ rpc' # rpc /\ rerr # "nil") =>
          (rpc' = "retry_124" /\ retryCount' = retryCount + 1)]_vars
  /\ [][(rpc \in {"Read_116", "Read_117", "Read_118"} /\ rpc' # rpc) =>
          (rn' = rn /\ rerr' = rerr)]_vars

\* C10 witness: retry runs although no byte was ever written.
C10_Witness == rpc = "retry_128" /\ hello = <<>> /\ recv[FirstConn] = <<>>


\* C11 (as claimed): whenever a Write that failed on the provisional
\* connection is about to write its remainder, the retry procedure has run.
C11_WriteErrorTriggersRetry == wpc = "Write_203" => retryCount >= 1

\* C11 (amended): a Write that failed on the provisional connection runs no
\* retry itself (no writer step dials, replaces r.conn or closes the flag);
\* it writes its remainder only once the reader has closed the flag, to r.conn
\* as it is then: the original connection exactly when no retry ran.
C11_WriteErrorWaitsForDecision ==
  /\ [](wpc \in {"Write_199", "Write_200", "Write_203"} => retryCompleteFlag)
  /\ [](wpc = "Write_203" => (wconn = conn /\ (wconn = FirstConn <=> retryCount = 0)))
  /\ [][WriterStep => UNCHANGED <<retryCount, dialCount, conn, retryCompleteFlag>>]_vars


\* C11 witness: the writer failed on the provisional connection after writing
\* part of its buffer, the reader retried, and the writer is about to write
\* the remainder to the replacement connection.
C11_Witness ==
  wpc = "Write_203" /\ retryCount = 1 /\ wconn = NewConn /\ wn >= 1 /\ wn < Len(wb)


\* C12: however CloseRead and CloseWrite calls overlap, no flag is closed
\* twice (no close of a closed channel).
C12_NoDoubleClose == panicked # ClosedChannel


\* C13: for a hello of any length L and every random draw, splitHello returns
\* a prefix and a suffix whose concatenation is hello byte for byte; both are
\* empty when L = 0; when L > 0 the offset s satisfies
\* min(32, L/2) <= s <= min(64, L/2), so the prefix is at most half of hello.
\* The replay writes exactly that prefix, then the rest, to the new connection.
C13_SplitCorrect ==
  /\ \A s0 \in MIN_SPLIT..MAX_SPLIT :
       LET L == Len(hello)
           first == splitHello(hello, s0)[1]
           second == splitHello(hello, s0)[2]
           s == Len(first)
       IN /\ first \o second = hello
          /\ first = Prefix(hello, s)
          /\ (L = 0 => (first = <<>> /\ second = <<>>))
          /\ (L > 0 => (Min(32, L \div 2) <= s /\ s <= Min(64, L \div 2)))
          /\ 2 * s <= L
  /\ rpc = "retry_132" =>
       /\ recv[conn] = Prefix(hello, rsplit)
       /\ 2 * rsplit <= Len(hello)
       /\ (Len(hello) > 0 =>
             (Min(32, Len(hello) \div 2) <= rsplit /\ rsplit <= Min(64, Len(hello) \div 2)))
  /\ rpc = "retry_139" => recv[conn] = hello

\* C13 witness: a hello longer than twice MAX_SPLIT was split at MAX_SPLIT and
\* its prefix written.
C13_Witness ==
  /\ rpc = "retry_132" /\ Len(hello) = 2 * MAX_SPLIT + 1 /\ rsplit = MAX_SPLIT
  /\ recv[conn] = Prefix(hello, MAX_SPLIT)


\* A Write that skipped the slow path (line 181 or the re-check of line 183
\* found the flag closed) and is about to write at lines 208-211.
C14_FastPath == wpc = "Write_208" /\ wconn = NilConn /\ werr = "nil"

\* C14: a Write that finds retryCompleteFlag closed, at line 181 or on the
\* re-check under the mutex, has written nothing before line 210, writes b
\* once to r.conn there, appends nothing to hello and arms no deadline; the
\* slow path runs only while the flag is open, and once the flag is closed no
\* step arms a read deadline or appends to hello.
C14_WriteFastPath ==
  /\ [](C14_FastPath => (retryCompleteFlag /\ wn = 0 /\ mutex # "writer"))
  /\ [](wpc \in {"Write_184", "Write_189"} => (~retryCompleteFlag /\ mutex = "writer"))
  /\ [][(wpc \in {"Write_181", "Write_182", "Write_183", "Write_191"} /\ wpc' # wpc)
          => UNCHANGED <<recv, hello, deadline>>]_vars
  /\ [][(C14_FastPath /\ wpc' # wpc)
          => /\ recv' = Accept(conn, wb, wn')
             /\ (werr' = "nil" => wn' = Len(wb))
             /\ UNCHANGED <<hello, deadline, conn>>]_vars
  /\ [][retryCompleteFlag => (deadline' = deadline /\ hello' \in {hello, <<>>})]_vars

\* C14 witness: a Write of the longest buffer passed line 181 with the flag
\* open, found it closed on the re-check under the mutex and skipped the slow
\* path, while a deadline armed by an earlier Write is still set.
C14_Witness ==
  /\ wpc = "Write_191" /\ wconn = NilConn /\ retryCompleteFlag
  /\ Len(wb) = MaxWriteLen /\ deadline # {}


\* C15: a CloseWrite or a Write that waits for the mutex gets it whatever the
\* peer does: with every goroutine scheduled fairly, and no assumption that
\* the peer ever sends anything, a call waiting at r.mutex.Lock() goes on
\* (as long as the process lives: a panic ends every call).
C15_LockWaitIsBrief ==
  /\ (wpc = "CloseWrite_241") ~> (wpc = "CloseWrite_243" \/ panicked # NoPanic)
  /\ (wpc = "Write_182") ~> (wpc = "Write_183" \/ panicked # NoPanic)


\* C16 (as claimed): a Write whose slow-path write failed waits for
\* retryCompleteFlag without holding the mutex (so the reader is never kept
\* off the mutex by a writer waiting for the flag) and goes on only once the
\* flag is closed; when the reader keeps issuing Read and the transport's
\* reads return, no Write stays for ever between the wait of line 198 and the
\* write of its remainder (line 203): the flag is closed, the remainder is
\* written and the Write returns.
C16_BlockedWriteLiveness ==
  /\ [](wpc = "Write_198" => (mutex # "writer" /\ werr # "nil"))
  /\ [](wpc \in {"Write_199", "Write_200", "Write_203"} => retryCompleteFlag)
  /\ []<>(wpc \notin {"Write_198", "Write_199", "Write_200", "Write_203"})


\* C17 (as claimed): on the recovery path the write of b[n:] (line 203)
\* returns a count m and n becomes n + m, whatever the retry's outcome; the
\* Write then returns that count and the error of that write, and writes
\* nothing more.
C17_RecoveryCount ==
  /\ [][Write_203 =>
          /\ wpc' = "Write_208" /\ wn' >= wn /\ wn' <= Len(wb)
          /\ recv' = Accept(wconn, Suffix(wb, wn), wn' - wn)]_vars
  /\ [][(wpc = "Write_208" /\ wpc' # wpc /\ ~C14_FastPath)
          => (wn' = wn /\ werr' = werr /\ nextByte' = nextByte + wn /\ recv' = recv)]_vars


C18_RetryPcs == {"retry_124", "retry_125", "retry_128", "retry_132", "retry_139",
                 "retry_142", "retry_145"}

\* C18: retry runs under the mutex and in this order: close the old
\* connection, dial, write the prefix, write the suffix, re-apply the pending
\* half-closes, read.  The new connection holds the whole of hello before
\* either half of it is shut, and until retryCompleteFlag is closed nothing
\* but the replay is written to it.
C18_RetryOrder ==
  /\ [](rpc \in C18_RetryPcs => (mutex = "reader" /\ ~retryCompleteFlag))
  /\ [](rpc = "retry_124" => (conn = FirstConn /\ closedConns = {} /\ dialCount = 0))
  /\ [](rpc = "retry_125" => (conn = FirstConn /\ closedConns = {FirstConn} /\ dialCount = 0))
  /\ [](rpc = "retry_128" =>
          (conn = NewConn /\ recv[NewConn] = <<>> /\ NewConn \notin shutRd \cup shutWr))
  /\ [](rpc = "retry_132" =>
          /\ conn = NewConn /\ NewConn \notin shutRd \cup shutWr
          /\ recv[NewConn] = splitHello(hello, rsplit)[1])
  /\ [](rpc = "retry_139" =>
          (recv[NewConn] = hello /\ NewConn \notin shutRd \cup shutWr))
  /\ [](rpc = "retry_142" => (recv[NewConn] = hello /\ NewConn \notin shutWr))
  /\ [](rpc = "retry_145" => recv[NewConn] = hello)
  /\ []((~retryCompleteFlag /\ NewConn \in shutWr) => recv[NewConn] = hello)
  /\ [](~retryCompleteFlag => recv[NewConn] = Prefix(hello, Len(recv[NewConn])))
  /\ [][(rpc \in C18_RetryPcs /\ rpc' # rpc) =>
          \/ rpc = "retry_124" /\ rpc' = "retry_125"
          \/ rpc = "retry_125" /\ rpc' \in {"retry_128", "Read_116"}
          \/ rpc = "retry_128" /\ rpc' \in {"retry_132", "Read_116"}
          \/ rpc = "retry_132" /\ rpc' \in {"retry_139", "Read_116"}
          \/ rpc = "retry_139" /\ rpc' = "retry_142"
          \/ rpc = "retry_142" /\ rpc' = "retry_145"
          \/ rpc = "retry_145" /\ rpc' = "Read_116"]_vars
  /\ [][(wpc' # wpc /\ recv'[NewConn] # recv[NewConn]) => retryCompleteFlag]_vars

\* C18 witness: the retry replayed a hello of two bytes or more, re-applied a
\* pending CloseWrite after it, and is at its read while a caller's Write
\* waits for the mutex.
C18_Witness ==
  /\ rpc = "retry_145" /\ NewConn \in shutWr /\ Len(hello) >= 2
  /\ recv[NewConn] = hello /\ wpc = "Write_182"


\* C19: every byte ReadFrom takes from the source is handed on: a source read
\* that returned bytes (line 221) is followed by the call of Write with them
\* (line 224), and ReadFrom's count grows by what each Write returned.
C19_ReadFromHandsOn ==
  /\ [][(wpc = "ReadFrom_221" /\ wpc' # wpc) =>
          \/ wpc' = "Write_181" /\ rfErr' = "nil"
          \/ wpc' = "idle" /\ rfErr' # "nil" /\ wn' = 0]_vars
  /\ [][(wpc = "ReadFrom_225" /\ wpc' # wpc) => rfBytes' = rfBytes + wn]_vars


\* C20: once retryCompleteFlag is closed, no read deadline armed by a
\* buffered Write is in force on r.conn, so no later read of r.conn can end
\* with a deadline expiry.
C20_NoDeadlineAfterDecision ==
  (retryCompleteFlag /\ rpc \notin {"Read_117", "Read_118"}) =>
    (conn \notin deadline /\ <<0, "timeout">> \notin ReadOutcomes(conn))

====
